---- MODULE Spec2Model ----
(***************************************************************************)
(* State-machine model of tests/test_scaling.py: the two session drivers   *)
(* (http_session, ws_session), the batch runners (run_http_test,           *)
(* run_ws_test), the aggregator (compute_summary) and the orchestrators    *)
(* (run_single_test, run_grid_sweep, run_comparison).                      *)
(*                                                                         *)
(* Time is time.perf_counter() counted in integer ticks (variable now).    *)
(* Every await of the source is one pending operation of a session; the    *)
(* environment decides when and how it ends.  Wait values are opaque       *)
(* labels (tenths of a second).  The timestamp field (now_iso) is left     *)
(* out: no code reads it back.                                             *)
(***************************************************************************)
EXTENDS Integers, Sequences, FiniteSets, TLC

\* ---------------------------------------------------------------- bounds
MaxN == 2          \* largest batch size drawn
Timeout == 1       \* the timeout argument, in ticks
MaxFaults == 1     \* faults the environment may inject in one run
SessionDelays == 3 \* the same, when one session is run by itself

\* ------------------------------------------------------------ vocabulary
None == "<None>"                       \* Python's None
Modes == {"http", "ws"}
WaitValues == {1, 5}
HardwareTiers == {"t4-small"}

VARIABLES
    websockets,     \* TRUE iff `import websockets` succeeded (module global)
    entry,          \* which function the caller, or main, invoked
    hardware,       \* the hardware argument
    pc,             \* position of the coordinating coroutine
    cell,           \* arguments of the current run_single_test / runner call
    start,          \* run_single_test: start = time.perf_counter()
    sess,           \* the session coroutines of the last gather
    results,        \* run_single_test: results (gone once its caller goes on)
    summary,        \* RunSummary returned by the last run_single_test
    raised,         \* exception that left the entry function, or None
    now,            \* time.perf_counter()
    faults,         \* faults the environment may still inject
    delays,         \* awaits that may still take time
    cfg,            \* arguments of the entry function
    loop,           \* run_grid_sweep: position of the three nested for loops
    current,        \* run_grid_sweep: current
    all_summaries,  \* run_grid_sweep: all_summaries
    compared,       \* run_comparison: the summaries obtained so far
    data,           \* percentile: the argument data
    percent,        \* percentile: the argument p
    value,          \* percentile: the value returned
    pool,           \* requests of an http batch at the client's connection pool
    output_dir,     \* the output_dir argument, or None
    raw_jsonl,      \* the file output_dir / "raw.jsonl"
    summary_csv,    \* the file output_dir / "summary.csv"
    argv            \* main: the parsed command line (args)

vars == <<websockets, entry, hardware, pc, cell, start, sess, results,
          summary, raised, now, faults, delays, cfg, loop, current, all_summaries,
          compared, data, percent, value, pool, output_dir, raw_jsonl, summary_csv,
          argv>>

\* never assigned after the call (main sets entry and cfg when it makes the call)
args == <<websockets, entry, hardware, cfg, output_dir, argv>>
files == <<raw_jsonl, summary_csv>>
budget == <<faults, delays>>
sweep == <<loop, current, all_summaries>>
pure == <<data, percent, value>>                 \* a call of percentile by itself

\* what the session coroutines leave alone
orch == <<args, files, pure, pool, pc, cell, start, results, summary, raised, sweep, compared>>

\* --------------------------------------------------------- SessionResult
\* dict.get(key, default) on the observation the server sent
ObsKeys(kind) ==
    IF kind = "full" THEN {"waited_seconds", "pid", "session_hash", "host_url"}
    ELSE {}

ObsValue(w) ==
    [waited_seconds |-> w, pid |-> 7, session_hash |-> "s1", host_url |-> "hostA"]

ObsGet(kind, w, key, default) ==
    IF key \in ObsKeys(kind) THEN ObsValue(w)[key] ELSE default

\* the dataclass with its defaults (fields the constructor call does not pass)
SessionResult(request_id, mode, wait_requested) ==
    [request_id |-> request_id, mode |-> mode, wait_requested |-> wait_requested,
     batch_size |-> 0, hardware |-> "cpu-basic",
     connect_latency |-> 0, reset_latency |-> 0, step_latency |-> 0,
     total_latency |-> 0,
     waited_seconds |-> 0, pid |-> 0, session_hash |-> "", host_url |-> "",
     success |-> TRUE, error_type |-> None, error_message |-> None]

\* type(e).__name__
ExcName(e) == e

\* str(e): asyncio.wait_for raises TimeoutError() and httpx its timeouts with no
\* message; the other exceptions carry a text
ExcStr(e) ==
    IF e \in {"TimeoutError", "ReadTimeout"} THEN "" ELSE "msg:" \o e

\* the return statement of the happy path (lines 221-234, 324-337)
SuccessResult(request_id, mode, w, cl, rl, sl, tl, obs) ==
    [SessionResult(request_id, mode, w) EXCEPT
        !.connect_latency = cl, !.reset_latency = rl, !.step_latency = sl,
        !.total_latency = tl,
        !.waited_seconds = ObsGet(obs, w, "waited_seconds", 0),
        !.pid = ObsGet(obs, w, "pid", 0),
        !.session_hash = ObsGet(obs, w, "session_hash", ""),
        !.host_url = ObsGet(obs, w, "host_url", "")]

\* the return statement of the except clause (lines 236-247, 339-350)
FailedResult(request_id, mode, w, tl, e) ==
    [SessionResult(request_id, mode, w) EXCEPT
        !.total_latency = tl, !.success = FALSE,
        !.error_type = ExcName(e), !.error_message = ExcStr(e)]

\* ------------------------------------------------------ session coroutine
\* Local state of one session coroutine.  pc names the await it is suspended in:
\*   connect      wait_for(websockets.connect(...), timeout)           (290-293)
\*   reset        ws.send(reset), then wait_for(ws.recv(), timeout)     (300-301)
\*   step         ws.send(step), then wait_for(ws.recv(), timeout)      (310-311)
\*   closing      ws.send(close) unless an exception is pending, then the
\*                exit of `async with ws` (await ws.close())            (319-320)
\*   http_reset   client.post(/reset)                                   (202)
\*   http_step    client.post(/step)                                    (209-212)
\*   done         returned its SessionResult
\*   raised       an exception left the coroutine
\* hung says which part of the pending await the peer never answers: "send" (the
\* peer stopped reading, ws.send never returns), "recv" (no response, no
\* connection) or "" (none).  elapsed is perf_counter() - t0 at the start of the
\* pending await; the await that ends adds its duration d.
\* Two fields are not locals but what the session did to the outside: wire is
\* the sequence of protocol messages it issued (">reset", ">step", ">close")
\* and of answers it read ("<ok", "<error", "<2xx", "<5xx"), conn the state of
\* the WebSocket connection it opened ("none", "open", "closed").
NewSession(i, mode, w) ==
    [pc |-> "created", elapsed |-> 0, hung |-> "", exc |-> None, obs |-> None,
     connect_latency |-> 0, reset_latency |-> 0, step_latency |-> 0,
     wire |-> <<>>, conn |-> "none",
     result |-> SessionResult(i - 1, mode, w)]

\* the session issues message m / reads answer m
Sent(s, m) == [s EXCEPT !.wire = Append(s.wire, ">" \o m)]
Read(s, m) == [s EXCEPT !.wire = Append(s.wire, "<" \o m)]

\* the coroutine has ended: its locals are gone
Ended(s, p, r) ==
    [s EXCEPT !.pc = p, !.elapsed = 0, !.hung = "", !.exc = None, !.obs = None,
              !.connect_latency = 0, !.reset_latency = 0, !.step_latency = 0,
              !.result = r]

Ids == DOMAIN sess                      \* position i holds request_id i - 1

PendingOps == {"connect", "reset", "step", "closing", "http_reset", "http_step"}

\* The parts of a pending await that can hang.  ws.close() ends by itself (the
\* library bounds it), so a closing session can only hang in ws.send(close).
HangParts(s) ==
    IF s.pc \in {"reset", "step"} THEN {"send", "recv"}
    ELSE IF s.pc = "closing" THEN (IF s.exc = None THEN {"send"} ELSE {})
    ELSE {"recv"}

\* variant: websockets.connect called without wait_for
HasTimeoutNoConnect(p, part) ==
    \/ p \in {"http_reset", "http_step"}
    \/ p \in {"reset", "step"} /\ part = "recv"

\* variant: ws.recv called without wait_for
HasTimeoutNoRecv(p, part) == p \in {"connect", "http_reset", "http_step"}

\* what the timeout covers: wait_for(..., timeout) wraps websockets.connect and
\* ws.recv, not ws.send; httpx.AsyncClient(timeout=timeout) covers its requests
HasTimeout(p, part) ==
    \/ p \in {"connect", "http_reset", "http_step"}
    \/ p \in {"reset", "step"} /\ part = "recv"

\* how long the environment can take to end an await
MaxDur == Timeout + 1
Durations == 0..MaxDur

\* wait_for and httpx let a covered await end by itself only within the timeout
Completes(p, d) == HasTimeout(p, "recv") => d <= Timeout

\* variant: an except clause that names the timeouts only
CatchesTimeouts(e) == e \in {"TimeoutError", "ReadTimeout"}

\* `except Exception as e` (lines 236, 339) catches what the awaits raise
Catches(e) == TRUE

\* exceptions the environment can make a pending operation raise
FailuresOf(p) ==
    IF p = "connect" THEN {"ConnectionRefusedError"}
    ELSE IF p \in {"http_reset", "http_step"} THEN {"ConnectError"}
    ELSE {"ConnectionClosedError"}

\* what the timeout raises: asyncio.TimeoutError from wait_for, httpx.ReadTimeout
TimeoutOf(p) == IF p \in {"http_reset", "http_step"} THEN "ReadTimeout" ELSE "TimeoutError"

\* the awaits inside `async with ws:` (lines 297-319)
InsideWith(p) == p \in {"reset", "step", "closing"}

\* the pending await of s ended after d ticks
After(s, d) == [s EXCEPT !.elapsed = s.elapsed + d]

\* variant: the session body without `async with ws`
RaiseNoWith(s, i, e) ==
    Ended(s, "done",
          FailedResult(i - 1, s.result.mode, s.result.wait_requested, s.elapsed, e))

\* An exception e is raised in session s (request_id i - 1) at its pending await.
\* Inside `async with ws` the context manager first closes the connection and the
\* except clause runs after that; elsewhere the except clause runs at once.
Raise(s, i, e) ==
    IF InsideWith(s.pc)
    THEN [s EXCEPT !.pc = "closing", !.exc = e, !.hung = ""]
    ELSE IF Catches(e)
    THEN Ended(s, "done",
               FailedResult(i - 1, s.result.mode, s.result.wait_requested, s.elapsed, e))
    ELSE [Ended(s, "raised", s.result) EXCEPT !.exc = e]

\* the environment's budgets: a fault costs one of faults, an await that takes
\* time one of delays
Spend(fault, d) ==
    /\ fault => faults > 0
    /\ d > 0 => delays > 0
    /\ faults' = IF fault THEN faults - 1 ELSE faults
    /\ delays' = IF d > 0 THEN delays - 1 ELSE delays

\* lines 281-293 and 196-202: the coroutine runs up to its first await
SessionStarted(s) ==
    IF s.result.mode = "ws"
    THEN IF ~websockets
         THEN [Ended(s, "raised", s.result) EXCEPT !.exc = "ImportError"]
         ELSE [s EXCEPT !.pc = "connect"]
    ELSE Sent([s EXCEPT !.pc = "http_reset"], "reset")

\* lines 290-300: connected; connect_latency; enter `async with`; send reset
Connected(s, d) ==
    Sent([After(s, d) EXCEPT !.connect_latency = d, !.conn = "open", !.pc = "reset"],
         "reset")

ws_connect_ok(i, d) ==
    /\ pc = "gather"
    /\ sess[i].pc = "connect" /\ sess[i].hung = ""
    /\ Completes(sess[i].pc, d)
    /\ Spend(FALSE, d)
    /\ sess' = [sess EXCEPT ![i] = Connected(sess[i], d)]
    /\ UNCHANGED <<orch, now>>

\* variant: the reset response used without looking at its type
ResetReceivedUnchecked(s, i, d, msg) ==
    Sent([Read([After(s, d) EXCEPT !.reset_latency = d], msg) EXCEPT !.pc = "step"],
         "step")

\* lines 300-310: the reset response arrived d ticks after t_reset_start.  msg is
\* "ok" (a JSON object whose type is not "error") or "error" (type "error", or
\* anything that makes json.loads or .get raise)
ResetReceived(s, i, d, msg) ==
    LET t == Read([After(s, d) EXCEPT !.reset_latency = d], msg) IN
    IF msg = "error"
    THEN Raise(t, i, "RuntimeError")
    ELSE Sent([t EXCEPT !.pc = "step"], "step")

ws_reset_recv(i, d, msg) ==
    /\ pc = "gather"
    /\ sess[i].pc = "reset" /\ sess[i].hung = ""
    /\ Completes(sess[i].pc, d)
    /\ Spend(msg # "ok", d)
    /\ sess' = [sess EXCEPT ![i] = ResetReceived(sess[i], i, d, msg)]
    /\ UNCHANGED <<orch, now>>

\* lines 310-319: the step response arrived d ticks after t_step_start; obs is the
\* shape of its data.observation: "full", "missing" (keys absent) or "bad" (data
\* is no dict, so line 322 raises AttributeError)
StepReceived(s, i, d, msg, obs) ==
    LET t == Read([After(s, d) EXCEPT !.step_latency = d], msg) IN
    IF msg = "error"
    THEN Raise(t, i, "RuntimeError")
    ELSE Sent([t EXCEPT !.obs = obs, !.pc = "closing"], "close")

ws_step_recv(i, d, msg, obs) ==
    /\ pc = "gather"
    /\ sess[i].pc = "step" /\ sess[i].hung = ""
    /\ msg # "ok" => obs = "full"
    /\ Completes(sess[i].pc, d)
    /\ Spend(msg # "ok" \/ obs # "full", d)
    /\ sess' = [sess EXCEPT ![i] = StepReceived(sess[i], i, d, msg, obs)]
    /\ UNCHANGED <<orch, now>>

\* variant: an except clause that reports the phases timed before the failure
WsClosedKeepsPhases(s, i, d) ==
    LET r == s.result
        tl == s.elapsed + d
        c == [s EXCEPT !.conn = "closed"]
    IN
    IF s.exc # None \/ s.obs = "bad"
    THEN Ended(c, "done",
               [FailedResult(i - 1, "ws", r.wait_requested, tl,
                             IF s.exc # None THEN s.exc ELSE "AttributeError")
                  EXCEPT !.connect_latency = s.connect_latency,
                         !.reset_latency = s.reset_latency,
                         !.step_latency = s.step_latency])
    ELSE Ended(c, "done",
               SuccessResult(i - 1, "ws", r.wait_requested, s.connect_latency,
                             s.reset_latency, s.step_latency, tl, s.obs))

\* lines 319-350: `async with ws` has closed the connection, d ticks after the
\* block was left.  With a pending exception the except clause builds the failed
\* record; otherwise the record is built from the step response.
WsClosed(s, i, d) ==
    LET r == s.result
        tl == s.elapsed + d
        c == [s EXCEPT !.conn = "closed"]
    IN
    IF s.exc # None
    THEN IF Catches(s.exc)
         THEN Ended(c, "done", FailedResult(i - 1, "ws", r.wait_requested, tl, s.exc))
         ELSE [Ended(c, "raised", r) EXCEPT !.exc = s.exc]
    ELSE IF s.obs = "bad"
    THEN Ended(c, "done",
               FailedResult(i - 1, "ws", r.wait_requested, tl, "AttributeError"))
    ELSE Ended(c, "done",
               SuccessResult(i - 1, "ws", r.wait_requested, s.connect_latency,
                             s.reset_latency, s.step_latency, tl, s.obs))

ws_close_done(i, d) ==
    /\ pc = "gather"
    /\ sess[i].pc = "closing" /\ sess[i].hung = ""
    /\ Completes(sess[i].pc, d)
    /\ Spend(FALSE, d)
    /\ sess' = [sess EXCEPT ![i] = WsClosed(sess[i], i, d)]
    /\ UNCHANGED <<orch, now>>

\* variant: POST /reset without raise_for_status
HttpResetAnsweredUnchecked(s, i, d, status) ==
    Sent([Read(After(s, d), status) EXCEPT !.reset_latency = d, !.pc = "http_step"],
         "step")

\* lines 202-209: POST /reset answered; raise_for_status; POST /step issued
HttpResetAnswered(s, i, d, status) ==
    LET t == Read(After(s, d), status) IN
    IF status # "2xx" THEN Raise(t, i, "HTTPStatusError")
    ELSE Sent([t EXCEPT !.reset_latency = d, !.pc = "http_step"], "step")

http_reset_done(i, d, status) ==
    /\ pc = "gather"
    /\ sess[i].pc = "http_reset" /\ sess[i].hung = ""
    /\ Completes(sess[i].pc, d)
    /\ Spend(status # "2xx", d)
    /\ sess' = [sess EXCEPT ![i] = HttpResetAnswered(sess[i], i, d, status)]
    /\ UNCHANGED <<orch, now>>

\* lines 209-234: POST /step answered; body is the shape of the JSON body:
\* "full", "missing" (no observation keys) or "bad" (no JSON object)
HttpStepAnswered(s, i, d, status, body) ==
    LET r == s.result
        t == Read(After(s, d), status)
    IN
    IF status # "2xx" THEN Raise(t, i, "HTTPStatusError")
    ELSE IF body = "bad" THEN Raise(t, i, "AttributeError")
    ELSE Ended(t, "done",
               SuccessResult(i - 1, "http", r.wait_requested, 0, s.reset_latency,
                             d, s.elapsed + d, body))

http_step_done(i, d, status, body) ==
    /\ pc = "gather"
    /\ sess[i].pc = "http_step" /\ sess[i].hung = ""
    /\ status # "2xx" => body = "full"
    /\ Completes(sess[i].pc, d)
    /\ Spend(status # "2xx" \/ body # "full", d)
    /\ sess' = [sess EXCEPT ![i] = HttpStepAnswered(sess[i], i, d, status, body)]
    /\ UNCHANGED <<orch, now>>

\* a pending operation raises (connection refused, reset by peer, ...); a closing
\* session can only fail in ws.send(close)
op_fail(i, d, e) ==
    /\ pc = "gather"
    /\ sess[i].pc \in PendingOps /\ sess[i].hung = ""
    /\ sess[i].pc = "closing" => sess[i].exc = None
    /\ e \in FailuresOf(sess[i].pc)
    /\ Completes(sess[i].pc, d)
    /\ Spend(TRUE, d)
    /\ sess' = [sess EXCEPT ![i] = Raise(After(sess[i], d), i, e)]
    /\ UNCHANGED <<orch, now>>

\* the peer goes silent: the pending operation will never end by itself
op_hang(i, part) ==
    /\ pc = "gather"
    /\ sess[i].pc \in PendingOps /\ sess[i].hung = ""
    /\ part \in HangParts(sess[i])
    /\ Spend(TRUE, 0)
    /\ sess' = [sess EXCEPT ![i] = [sess[i] EXCEPT !.hung = part]]
    /\ UNCHANGED <<orch, now>>

\* the timeout of a covered await expires: the peer is silent, or merely slow
op_timeout(i) ==
    /\ pc = "gather"
    /\ sess[i].pc \in PendingOps
    /\ IF sess[i].hung = ""
       THEN HasTimeout(sess[i].pc, "recv") /\ delays > 0
       ELSE HasTimeout(sess[i].pc, sess[i].hung)
    /\ delays' = IF sess[i].hung = "" THEN delays - 1 ELSE delays
    /\ sess' = [sess EXCEPT ![i] =
                  Raise(After([sess[i] EXCEPT !.hung = ""], Timeout), i,
                        TimeoutOf(sess[i].pc))]
    /\ UNCHANGED <<orch, now, faults>>

\* ----------------------------------------------------------- batch runner
\* run_single_test line 565: mode "ws" takes run_ws_test, anything else run_http_test
RunnerOf(mode) == IF mode = "ws" THEN "ws" ELSE "http"

\* lines 260-261 and 362-363: tasks = [..._session(..., i, wait_seconds) for i in
\* range(N)]; gather schedules them and each runs up to its first await before
\* the event loop handles any I/O
Tasks(c) ==
    [i \in 1..c.num_requests |->
        SessionStarted(NewSession(i, RunnerOf(c.mode), c.wait_seconds))]

\* variant: a runner that keeps the records of the sessions that succeeded
GatherSucceeded(s) ==
    SelectSeq([i \in 1..Len(s) |-> s[i].result], LAMBDA r : r.success)

\* lines 258-259: run_http_test enters `async with httpx.AsyncClient(...)`;
\* run_ws_test has no client
ClientEntered(c) ==
    IF RunnerOf(c.mode) = "http" THEN [pool EXCEPT !.client = "open"] ELSE pool

\* line 266: `return` leaves the `async with`, which closes the client
ClientLeft(c) ==
    IF RunnerOf(c.mode) = "http" THEN [pool EXCEPT !.client = "closed"] ELSE pool

\* asyncio.gather returns the results in the order of its arguments
GatherResults(s) == [i \in 1..Len(s) |-> s[i].result]

\* variant: only the records of the sessions that succeeded are stamped
StampSuccessful(rs, n, hw) ==
    [i \in 1..Len(rs) |->
        IF rs[i].success THEN [rs[i] EXCEPT !.batch_size = n, !.hardware = hw]
        ELSE rs[i]]

\* lines 263-265 and 365-367
Stamp(rs, n, hw) == [i \in 1..Len(rs) |-> [rs[i] EXCEPT !.batch_size = n, !.hardware = hw]]

\* variant: a gather that gives up the batch at the first failed session
AllDoneOrFailed ==
    \/ \A i \in Ids : sess[i].pc = "done"
    \/ \E i \in Ids : sess[i].pc = "done" /\ ~sess[i].result.success

\* variant: a wait that returns with the first session that ends
AnyDone == Ids = {} \/ \E i \in Ids : sess[i].pc = "done"

\* await asyncio.gather(*tasks) resumes when every task has returned
AllDone == \A i \in Ids : sess[i].pc = "done"

\* the sessions started together: the last one ends this long after the launch
RECURSIVE Longest(_, _)
Longest(rs, k) ==
    IF k = 0 THEN 0
    ELSE LET m == Longest(rs, k - 1) IN
         IF rs[k].total_latency > m THEN rs[k].total_latency ELSE m

\* lines 261-266, 363-368: gather returned; stamp; return list(results)
gather_return ==
    /\ pc = "gather"
    /\ AllDone
    /\ results' = Stamp(GatherResults(sess), cell.num_requests, hardware)
    /\ now' = now + Longest(results', Len(results'))
    /\ pool' = ClientLeft(cell)
    /\ pc' = IF entry = "runner" THEN "returned" ELSE "runner_ret"
    /\ UNCHANGED <<args, files, pure, budget, cell, start, sess, summary, raised, sweep, compared>>

\* gather (return_exceptions=False) re-raises the first exception of a task; no
\* caller has a try, so it leaves the entry function
gather_raise ==
    /\ pc = "gather"
    /\ \E i \in Ids :
         /\ sess[i].pc = "raised"
         /\ raised' = sess[i].exc
    /\ pc' = "raised"
    /\ UNCHANGED <<args, files, pure, pool, budget, cell, start, sess, results, summary, now, sweep,
                   compared>>

\* the caller invokes run_http_test / run_ws_test itself
runner_call ==
    /\ pc = "call_runner"
    /\ pool' = ClientEntered(cell)
    /\ sess' = Tasks(cell)
    /\ pc' = "gather"
    /\ UNCHANGED <<args, files, pure, budget, cell, start, results, summary, raised, now, sweep,
                   compared>>

\* ------------------------------------------------------------- numbers
\* Latencies are whole ticks.  A float the code computes by dividing or
\* interpolating is the exact fraction n/d in lowest terms (d > 0).
RECURSIVE GCD(_, _)
GCD(a, b) == IF b = 0 THEN a ELSE GCD(b, a % b)

Abs(x) == IF x < 0 THEN -x ELSE x

Frac(n, d) ==
    LET g == GCD(Abs(n), d) IN [n |-> n \div g, d |-> d \div g]

Zero == [n |-> 0, d |-> 1]                       \* 0.0
FromInt(x) == [n |-> x, d |-> 1]
Leq(a, b) == a.n * b.d <= b.n * a.d

\* what a division by zero leaves in place of a value: Python raises
\* ZeroDivisionError
ZeroDivisionError == [n |-> 0, d |-> 0]

\* n / d
Div(n, d) == IF d = 0 THEN ZeroDivisionError ELSE Frac(n, d)

\* int(n / d): truncation towards zero
Trunc(n, d) == IF n >= 0 THEN n \div d ELSE -((-n) \div d)

Min(a, b) == IF a <= b THEN a ELSE b

\* ------------------------------------------------------------ percentile
\* sorted(data): insertion into an ascending sequence
RECURSIVE Insert(_, _)
Insert(x, s) ==
    IF s = <<>> THEN <<x>>
    ELSE IF x <= Head(s) THEN <<x>> \o s
    ELSE <<Head(s)>> \o Insert(x, Tail(s))

\* variant: the data used in the order given
unsorted(xs) == xs

RECURSIVE sorted(_)
sorted(xs) == IF xs = <<>> THEN <<>> ELSE Insert(Head(xs), sorted(Tail(xs)))

\* variant: the interpolation weight taken from the upper neighbour
percentileMirrored(xs, q) ==
    IF xs = <<>> THEN Zero
    ELSE LET sorted_data == sorted(xs)
             k100 == (Len(sorted_data) - 1) * q
             f == Trunc(k100, 100)
             c == Min(f + 1, Len(sorted_data) - 1)
         IN Frac(100 * sorted_data[f + 1]
                   + (100 * (f + 1) - k100) * (sorted_data[c + 1] - sorted_data[f + 1]),
                 100)

\* lines 156-164; q is p in percent, k100 is 100 * k, sequences count from 1
percentile(xs, q) ==
    IF xs = <<>> THEN Zero
    ELSE LET sorted_data == sorted(xs)
             k100 == (Len(sorted_data) - 1) * q
             f == Trunc(k100, 100)
             c == Min(f + 1, Len(sorted_data) - 1)
         IN Frac(100 * sorted_data[f + 1]
                   + (k100 - 100 * f) * (sorted_data[c + 1] - sorted_data[f + 1]),
                 100)

\* ------------------------------------------------------- compute_summary
\* variant: failures counted by their error message
CountReported(rs, ok) ==
    Cardinality({i \in 1..Len(rs) :
                    IF ok THEN rs[i].success ELSE rs[i].error_message \notin {None, ""}})

\* lines 386-387: successful = [r for r in results if r.success], failed the rest
Count(rs, ok) == Cardinality({i \in 1..Len(rs) : rs[i].success = ok})

\* the dataclass with its defaults (url and timestamp left out)
RunSummary(mode, num_requests) ==
    [mode |-> mode, num_requests |-> num_requests, batch_size |-> 0,
     wait_seconds |-> 0, repetition |-> 0, hardware |-> "cpu-basic",
     successful |-> 0, failed |-> 0, error_rate |-> Zero, total_wall_time |-> 0,
     connect_p50 |-> Zero, connect_p95 |-> Zero, connect_p99 |-> Zero,
     reset_p50 |-> Zero, reset_p95 |-> Zero, reset_p99 |-> Zero,
     step_p50 |-> Zero, step_p95 |-> Zero, step_p99 |-> Zero,
     total_min |-> Zero, total_max |-> Zero, total_avg |-> Zero,
     total_p50 |-> Zero, total_p90 |-> Zero, total_p95 |-> Zero, total_p99 |-> Zero,
     requests_per_second |-> Zero, effective_concurrency |-> Zero,
     unique_pids |-> 0, unique_sessions |-> 0, unique_hosts |-> 0]

\* line 387: successful = [r for r in results if r.success]
Successful(rs) == SelectSeq(rs, LAMBDA r : r.success)

\* variant: the division without its guard
ErrorRateUnguarded(rs) == Div(Count(rs, FALSE), Len(rs))

\* variant: failures per successful session
ErrorRatePerSuccess(rs) ==
    IF rs # <<>> /\ Count(rs, TRUE) > 0 THEN Div(Count(rs, FALSE), Count(rs, TRUE))
    ELSE Zero

\* line 401: len(failed) / len(results) if results else 0.0
ErrorRate(rs) == IF rs # <<>> THEN Div(Count(rs, FALSE), Len(rs)) ELSE Zero

\* variant: every successful record enters the sample
PhaseTimesAll(ok, phase) == [i \in 1..Len(ok) |-> ok[i][phase]]

\* lines 409-411: [r.<phase> for r in successful if r.<phase> > 0]
PhaseTimes(ok, phase) ==
    SelectSeq([i \in 1..Len(ok) |-> ok[i][phase]], LAMBDA x : x > 0)

RECURSIVE Sum(_)
Sum(xs) == IF xs = <<>> THEN 0 ELSE Head(xs) + Sum(Tail(xs))

\* min, max and statistics.mean of a non-empty list
MinOf(xs) == CHOOSE x \in {xs[i] : i \in 1..Len(xs)} : \A i \in 1..Len(xs) : x <= xs[i]
MaxOf(xs) == CHOOSE x \in {xs[i] : i \in 1..Len(xs)} : \A i \in 1..Len(xs) : x >= xs[i]
Mean(xs) == Frac(Sum(xs), Len(xs))

\* variant: the concurrency level alone over the wall time
EffectiveConcurrencyNoWait(num_requests, wait_seconds, total_wall_time) ==
    Div(num_requests, total_wall_time)

\* line 445
EffectiveConcurrency(num_requests, wait_seconds, total_wall_time) ==
    Div(num_requests * wait_seconds, total_wall_time)

\* variant: the values counted without the set
UniqueTruthyList(xs, falsy) == Cardinality({i \in 1..Len(xs) : xs[i] # falsy})

\* lines 448-450: len(set(x for x in xs if x))
UniqueTruthy(xs, falsy) == Cardinality({xs[i] : i \in 1..Len(xs)} \ {falsy})

\* the statistics of the successful records ok
WithStatistics(s, ok, num_requests, wait_seconds, total_wall_time) ==
    LET connect_times == PhaseTimes(ok, "connect_latency")
        reset_times == PhaseTimes(ok, "reset_latency")
        step_times == PhaseTimes(ok, "step_latency")
        total_times == [i \in 1..Len(ok) |-> ok[i].total_latency]
        timed == total_wall_time > 0
    IN [s EXCEPT
          !.connect_p50 = percentile(connect_times, 50),
          !.connect_p95 = percentile(connect_times, 95),
          !.connect_p99 = percentile(connect_times, 99),
          !.reset_p50 = percentile(reset_times, 50),
          !.reset_p95 = percentile(reset_times, 95),
          !.reset_p99 = percentile(reset_times, 99),
          !.step_p50 = percentile(step_times, 50),
          !.step_p95 = percentile(step_times, 95),
          !.step_p99 = percentile(step_times, 99),
          !.total_min = FromInt(MinOf(total_times)),
          !.total_max = FromInt(MaxOf(total_times)),
          !.total_avg = Mean(total_times),
          !.total_p50 = percentile(total_times, 50),
          !.total_p90 = percentile(total_times, 90),
          !.total_p95 = percentile(total_times, 95),
          !.total_p99 = percentile(total_times, 99),
          !.requests_per_second =
              IF timed THEN Div(Len(ok), total_wall_time) ELSE Zero,
          !.effective_concurrency =
              IF timed
              THEN EffectiveConcurrency(num_requests, wait_seconds, total_wall_time)
              ELSE Zero,
          !.unique_pids = UniqueTruthy([i \in 1..Len(ok) |-> ok[i].pid], 0),
          !.unique_sessions =
              UniqueTruthy([i \in 1..Len(ok) |-> ok[i].session_hash], ""),
          !.unique_hosts = UniqueTruthy([i \in 1..Len(ok) |-> ok[i].host_url], "")]

\* lines 376-452
compute_summary(rs, mode, num_requests, wait_seconds, repetition, total_wall_time, hw) ==
    LET s == [RunSummary(mode, num_requests) EXCEPT
                !.batch_size = num_requests, !.wait_seconds = wait_seconds,
                !.repetition = repetition, !.hardware = hw,
                !.successful = Count(rs, TRUE), !.failed = Count(rs, FALSE),
                !.error_rate = ErrorRate(rs), !.total_wall_time = total_wall_time]
    IN IF Successful(rs) = <<>> THEN s
       ELSE WithStatistics(s, Successful(rs), num_requests, wait_seconds,
                           total_wall_time)

\* no summary yet
NoSummary == compute_summary(<<>>, "", 0, 0, 0, 0, "")
NoCell == [mode |-> "", num_requests |-> 0, wait_seconds |-> 0, repetition |-> 0]

\* ----------------------------------------------------------------- output
\* A file: whether it exists, and its lines.
NoFile == [exists |-> FALSE, lines |-> <<>>]
NoOutput == output_dir = None /\ raw_jsonl = NoFile /\ summary_csv = NoFile

\* asdict(summary).keys(): the fields of RunSummary in the order of the dataclass
fieldnames ==
    <<"mode", "num_requests", "batch_size", "wait_seconds", "repetition",
      "hardware", "successful", "failed", "error_rate", "total_wall_time",
      "connect_p50", "connect_p95", "connect_p99", "reset_p50", "reset_p95",
      "reset_p99", "step_p50", "step_p95", "step_p99", "total_min", "total_max",
      "total_avg", "total_p50", "total_p90", "total_p95", "total_p99",
      "requests_per_second", "effective_concurrency", "unique_pids",
      "unique_sessions", "unique_hosts">>

\* writer.writeheader() / writer.writerow(asdict(s)): the cells of a line in
\* the order of fieldnames
HeaderLine == [kind |-> "header", cells |-> fieldnames]
RowLine(s) == [kind |-> "row", cells |-> [k \in DOMAIN fieldnames |-> s[fieldnames[k]]]]

\* json.dumps(asdict(r)) + "\n": one line holding the fields of the record
JsonLine(r) == [kind |-> "json", object |-> r]

\* lines 460-464: open(filepath, "a") creates the file; one line per record
write_jsonl(rs, f) ==
    [exists |-> TRUE, lines |-> f.lines \o [k \in 1..Len(rs) |-> JsonLine(rs[k])]]

\* variant: the header written by every call
write_csv_summary_headed(summaries, f) ==
    IF summaries = <<>> THEN f
    ELSE [exists |-> TRUE,
          lines |-> f.lines \o <<HeaderLine>>
                     \o [k \in 1..Len(summaries) |-> RowLine(summaries[k])]]

\* lines 467-480: nothing for an empty list; the header when the file does not
\* exist yet; the rows appended
write_csv_summary(summaries, f) ==
    IF summaries = <<>> THEN f
    ELSE [exists |-> TRUE,
          lines |-> f.lines \o (IF f.exists THEN <<>> ELSE <<HeaderLine>>)
                     \o [k \in 1..Len(summaries) |-> RowLine(summaries[k])]]

\* ------------------------------------------------------- run_single_test
\* lines 561-570: start the clock, pick the runner, launch the batch
single_call ==
    /\ pc = "call_single"
    /\ start' = now
    /\ IF cell.mode = "ws" /\ ~websockets
       THEN /\ raised' = "ImportError"
            /\ pc' = "raised"
            /\ UNCHANGED <<sess, pool>>
       ELSE /\ pool' = ClientEntered(cell)
            /\ sess' = Tasks(cell)
            /\ pc' = "gather"
            /\ UNCHANGED raised
    /\ UNCHANGED <<args, files, pure, budget, cell, results, summary, now, sweep, compared>>

\* lines 572-595: wall time, summary, the two files when output_dir is given,
\* return
single_finish ==
    /\ pc = "runner_ret"
    /\ summary' = compute_summary(results, cell.mode, cell.num_requests,
                                  cell.wait_seconds, cell.repetition, now - start,
                                  hardware)
    /\ IF output_dir # None
       THEN /\ raw_jsonl' = write_jsonl(results, raw_jsonl)
            /\ summary_csv' = write_csv_summary(<<summary'>>, summary_csv)
       ELSE UNCHANGED files
    /\ pc' = IF entry = "single" THEN "returned" ELSE "single_ret"
    /\ UNCHANGED <<args, pure, pool, budget, cell, start, sess, results, raised, now, sweep,
                   compared>>

\* -------------------------------------------------------- run_grid_sweep
GridPause == 1        \* asyncio.sleep(0.5): one tick is half a second
ComparePause == 2     \* asyncio.sleep(1)

\* the three nested for loops (lines 622-624) as one position
InGrid(l) ==
    /\ l.ni \in 1..Len(cfg.requests_grid)
    /\ l.wi \in 1..Len(cfg.wait_grid)
    /\ l.rep \in 1..cfg.repetitions

\* variant: the loop over wait_grid outside the loop over requests_grid
NextIterationWaitOuter(l) ==
    IF l.rep < cfg.repetitions THEN [l EXCEPT !.rep = l.rep + 1]
    ELSE IF l.ni < Len(cfg.requests_grid) THEN [l EXCEPT !.ni = l.ni + 1, !.rep = 1]
    ELSE [ni |-> 1, wi |-> l.wi + 1, rep |-> 1]

\* the step of the loops: repetition innermost, requests_grid outermost
NextIteration(l) ==
    IF l.rep < cfg.repetitions THEN [l EXCEPT !.rep = l.rep + 1]
    ELSE IF l.wi < Len(cfg.wait_grid) THEN [l EXCEPT !.wi = l.wi + 1, !.rep = 1]
    ELSE [ni |-> l.ni + 1, wi |-> 1, rep |-> 1]

total_configs == Len(cfg.requests_grid) * Len(cfg.wait_grid) * cfg.repetitions

\* lines 610-638: next iteration of the loops, or return all_summaries
grid_iterate ==
    /\ pc = "grid_loop"
    /\ IF InGrid(loop)
       THEN /\ current' = current + 1
            /\ cell' = [mode |-> cfg.mode,
                        num_requests |-> cfg.requests_grid[loop.ni],
                        wait_seconds |-> cfg.wait_grid[loop.wi],
                        repetition |-> loop.rep]
            /\ pc' = "call_single"
       ELSE /\ pc' = "returned"
            /\ UNCHANGED <<current, cell>>
    /\ UNCHANGED <<args, files, pure, pool, budget, start, sess, results, summary, raised, now, loop,
                   all_summaries, compared>>

\* variant: a pause after every run, the last one included
grid_collect_pausing ==
    /\ pc = "single_ret" /\ entry = "grid"
    /\ all_summaries' = Append(all_summaries, summary)
    /\ loop' = NextIteration(loop)
    /\ pc' = "grid_sleep"
    /\ results' = <<>>
    /\ UNCHANGED <<args, files, pure, pool, budget, cell, start, sess, summary, raised, now,
                   current, compared>>

\* lines 639-643: append; pause unless this was the last run
grid_collect ==
    /\ pc = "single_ret" /\ entry = "grid"
    /\ all_summaries' = Append(all_summaries, summary)
    /\ loop' = NextIteration(loop)
    /\ pc' = IF current < total_configs THEN "grid_sleep" ELSE "grid_loop"
    /\ results' = <<>>
    /\ UNCHANGED <<args, files, pure, pool, budget, cell, start, sess, summary, raised, now, current,
                   compared>>

\* asyncio.sleep(0.5) is over
grid_wake ==
    /\ pc = "grid_sleep"
    /\ now' = now + GridPause
    /\ pc' = "grid_loop"
    /\ UNCHANGED <<args, files, pure, pool, budget, cell, start, sess, results, summary, raised, sweep,
                   compared>>

\* -------------------------------------------------------- run_comparison
\* variant: the http run started without looking for websockets
compare_call_unchecked ==
    /\ pc = "call_compare"
    /\ cell' = [mode |-> "http", num_requests |-> cfg.num_requests,
                wait_seconds |-> cfg.wait_seconds, repetition |-> 1]
    /\ pc' = "call_single"
    /\ UNCHANGED <<args, files, pure, pool, budget, start, sess, results, summary, raised, now,
                   sweep, compared>>

\* lines 657-670: without websockets sys.exit(1); else the http run
compare_call ==
    /\ pc = "call_compare"
    /\ IF ~websockets
       THEN /\ pc' = "exited"
            /\ UNCHANGED cell
       ELSE /\ cell' = [mode |-> "http", num_requests |-> cfg.num_requests,
                        wait_seconds |-> cfg.wait_seconds, repetition |-> 1]
            /\ pc' = "call_single"
    /\ UNCHANGED <<args, files, pure, pool, budget, start, sess, results, summary, raised, now, sweep,
                   compared>>

\* lines 668-681: keep the summary; after the http run pause, after the ws run return
compare_collect ==
    /\ pc = "single_ret" /\ entry = "compare"
    /\ compared' = Append(compared, summary)
    /\ pc' = IF cell.mode = "http" THEN "cmp_sleep" ELSE "returned"
    /\ results' = <<>>
    /\ UNCHANGED <<args, files, pure, pool, budget, cell, start, sess, summary, raised, now, sweep>>

\* variant: the ws run started without the pause
compare_wake_unpaused ==
    /\ pc = "cmp_sleep"
    /\ cell' = [cell EXCEPT !.mode = "ws"]
    /\ pc' = "call_single"
    /\ UNCHANGED <<args, files, pure, pool, budget, start, sess, results, summary, raised, now,
                   sweep, compared>>

\* asyncio.sleep(1) is over: the ws run
compare_wake ==
    /\ pc = "cmp_sleep"
    /\ now' = now + ComparePause
    /\ cell' = [cell EXCEPT !.mode = "ws"]
    /\ pc' = "call_single"
    /\ UNCHANGED <<args, files, pure, pool, budget, start, sess, results, summary, raised, sweep,
                   compared>>

\* ------------------------------------------------------------------ main
\* the arguments of an entry function, none given
NoCfg == [mode |-> "", num_requests |-> 0, wait_seconds |-> 0,
          requests_grid |-> <<>>, wait_grid |-> <<>>, repetitions |-> 0]

\* An option that was not given is the empty list: args.requests_grid is None
\* then, and a given one is never empty.
\* variant: the grid options looked at before --compare
main_call_grid_first ==
    /\ pc = "call_main"
    /\ IF argv.mode = "ws" /\ ~websockets
       THEN pc' = "exited" /\ UNCHANGED <<entry, cfg, cell>>
       ELSE IF argv.requests_grid # <<>> \/ argv.wait_grid # <<>>
       THEN /\ entry' = "grid"
            /\ cfg' = [NoCfg EXCEPT
                          !.mode = argv.mode,
                          !.requests_grid = IF argv.requests_grid # <<>>
                                            THEN argv.requests_grid
                                            ELSE <<argv.requests>>,
                          !.wait_grid = IF argv.wait_grid # <<>> THEN argv.wait_grid
                                        ELSE <<argv.wait>>,
                          !.repetitions = argv.reps]
            /\ pc' = "grid_loop"
            /\ UNCHANGED cell
       ELSE IF argv.compare
       THEN /\ entry' = "compare"
            /\ cfg' = [NoCfg EXCEPT !.mode = "http", !.num_requests = argv.requests,
                                    !.wait_seconds = argv.wait]
            /\ pc' = "call_compare"
            /\ UNCHANGED cell
       ELSE /\ entry' = "single"
            /\ cfg' = [NoCfg EXCEPT !.mode = argv.mode, !.num_requests = argv.requests,
                                    !.wait_seconds = argv.wait]
            /\ cell' = [mode |-> argv.mode, num_requests |-> argv.requests,
                        wait_seconds |-> argv.wait, repetition |-> 1]
            /\ pc' = "call_single"
    /\ UNCHANGED <<websockets, hardware, output_dir, argv, files, pure, pool, budget,
                   start, sess, results, summary, raised, now, sweep, compared>>

\* lines 749-810: exit when mode is ws and websockets is missing; else
\* run_comparison if --compare, else run_grid_sweep if a grid option was
\* given, else run_single_test
main_call ==
    /\ pc = "call_main"
    /\ IF argv.mode = "ws" /\ ~websockets
       THEN pc' = "exited" /\ UNCHANGED <<entry, cfg, cell>>
       ELSE IF argv.compare
       THEN /\ entry' = "compare"
            /\ cfg' = [NoCfg EXCEPT !.mode = "http", !.num_requests = argv.requests,
                                    !.wait_seconds = argv.wait]
            /\ pc' = "call_compare"
            /\ UNCHANGED cell
       ELSE IF argv.requests_grid # <<>> \/ argv.wait_grid # <<>>
       THEN /\ entry' = "grid"
            /\ cfg' = [NoCfg EXCEPT
                          !.mode = argv.mode,
                          !.requests_grid = IF argv.requests_grid # <<>>
                                            THEN argv.requests_grid
                                            ELSE <<argv.requests>>,
                          !.wait_grid = IF argv.wait_grid # <<>> THEN argv.wait_grid
                                        ELSE <<argv.wait>>,
                          !.repetitions = argv.reps]
            /\ pc' = "grid_loop"
            /\ UNCHANGED cell
       ELSE /\ entry' = "single"
            /\ cfg' = [NoCfg EXCEPT !.mode = argv.mode, !.num_requests = argv.requests,
                                    !.wait_seconds = argv.wait]
            /\ cell' = [mode |-> argv.mode, num_requests |-> argv.requests,
                        wait_seconds |-> argv.wait, repetition |-> 1]
            /\ pc' = "call_single"
    /\ UNCHANGED <<websockets, hardware, output_dir, argv, files, pure, pool, budget,
                   start, sess, results, summary, raised, now, sweep, compared>>

\* ------------------------------------------------------------------ Init
\* no request at the pool
NoPool == [reset_queued |-> 0, reset_sent |-> 0, step_queued |-> 0, step_sent |-> 0,
           done |-> 0, client |-> "none"]

MaxGrid == 2       \* longest requests_grid / wait_grid drawn
MaxReps == 2       \* largest repetitions drawn

\* grids [2, 1, 2, ...] and [1, 1, ...] of batch sizes and [1, 5, 9, ...] of
\* wait values
RequestsGrids ==
    {[i \in 1..k |-> 1 + (i % 2)] : k \in 0..MaxGrid} \cup {[i \in 1..MaxGrid |-> 1]}
WaitGrids == {[i \in 1..k |-> 4 * i - 3] : k \in 0..MaxGrid}

\* main was not called
NoArgv == [mode |-> "", requests |-> 0, wait |-> 0, requests_grid |-> <<>>,
           wait_grid |-> <<>>, reps |-> 0, compare |-> FALSE]

InitState ==
    /\ websockets \in BOOLEAN
    /\ hardware \in HardwareTiers
    /\ start = 0 /\ sess = <<>> /\ results = <<>> /\ summary = NoSummary
    /\ raised = None /\ now = 0
    /\ loop = [ni |-> 1, wi |-> 1, rep |-> 1] /\ current = 0
    /\ all_summaries = <<>> /\ compared = <<>>
    /\ data = <<>> /\ percent = 0 /\ value = Zero /\ pool = NoPool

\* a call without output_dir
InitCommon == InitState /\ NoOutput /\ argv = NoArgv

\* the arguments of one call of run_http_test / run_ws_test or run_single_test
BatchArgs(sizes) ==
    /\ entry \in {"runner", "single"}
    /\ \E m \in Modes, n \in sizes :
         /\ cfg = [NoCfg EXCEPT !.mode = m, !.num_requests = n, !.wait_seconds = 5]
         /\ cell = [mode |-> m, num_requests |-> n, wait_seconds |-> 5, repetition |-> 1]
    /\ pc = IF entry = "runner" THEN "call_runner" ELSE "call_single"

\* batches of up to MaxN sessions; one await of the batch takes time
Init ==
    /\ InitCommon
    /\ BatchArgs(0..MaxN)
    /\ faults = MaxFaults /\ delays = 1

\* the same, for the check of progress: one fault and one slow await, whatever
\* the size of the batch
InitLive ==
    /\ InitCommon
    /\ BatchArgs(0..MaxN)
    /\ faults = 1 /\ delays = 1

\* one session, with time to spend on every await
InitSession ==
    /\ InitCommon
    /\ BatchArgs({1})
    /\ faults = MaxFaults /\ delays = SessionDelays

\* one call of run_comparison; the environment injects one fault and one delay
InitCompare ==
    /\ InitCommon
    /\ entry = "compare"
    /\ faults = 1 /\ delays = 1
    /\ \E n \in 0..MaxN, w \in WaitValues :
         cfg = [NoCfg EXCEPT !.mode = "http", !.num_requests = n, !.wait_seconds = w]
    /\ cell = NoCell
    /\ pc = "call_compare"

\* one call of run_grid_sweep; the environment injects one fault or one delay
InitGrid ==
    /\ InitCommon
    /\ entry = "grid"
    /\ \E b \in {<<1, 0>>, <<0, 1>>} : faults = b[1] /\ delays = b[2]
    /\ \E m \in Modes, g \in RequestsGrids, wg \in WaitGrids, r \in 0..MaxReps :
         cfg = [NoCfg EXCEPT !.mode = m, !.requests_grid = g, !.wait_grid = wg,
                             !.repetitions = r]
    /\ cell = NoCell
    /\ pc = "grid_loop"

\* what an earlier invocation with the same output_dir left in the two files:
\* the record and the summary of a batch of one http session
EarlierResults ==
    Stamp(<<SuccessResult(0, "http", 5, 0, 0, 0, 0, "full")>>, 1, "t4-small")
EarlierSummary == compute_summary(EarlierResults, "http", 1, 5, 1, 0, "t4-small")

\* one call of run_grid_sweep or of run_comparison with an output_dir that is
\* new or was used before; the environment injects one fault or one delay
InitSink ==
    /\ InitState /\ argv = NoArgv
    /\ output_dir = "out"
    /\ \/ raw_jsonl = NoFile /\ summary_csv = NoFile
       \/ /\ raw_jsonl = write_jsonl(EarlierResults, NoFile)
          /\ summary_csv = write_csv_summary(<<EarlierSummary>>, NoFile)
    /\ \E b \in {<<1, 0>>, <<0, 1>>} : faults = b[1] /\ delays = b[2]
    /\ cell = NoCell
    /\ \/ /\ entry = "grid" /\ pc = "grid_loop"
          /\ \E m \in Modes, g \in {<<1>>, <<2, 1>>}, r \in 1..2 :
               cfg = [NoCfg EXCEPT !.mode = m, !.requests_grid = g,
                                   !.wait_grid = <<1>>, !.repetitions = r]
       \/ /\ entry = "compare" /\ pc = "call_compare"
          /\ \E n \in 0..1 :
               cfg = [NoCfg EXCEPT !.mode = "http", !.num_requests = n,
                                   !.wait_seconds = 5]

\* main called with a command line: --requests 2 --wait 5, with or without
\* --compare, --requests-grid, --wait-grid, and --reps 1 or 2; the environment
\* injects one fault or one delay
InitMain ==
    /\ InitState /\ NoOutput
    /\ entry = "main" /\ pc = "call_main"
    /\ cfg = NoCfg /\ cell = NoCell
    /\ \E b \in {<<1, 0>>, <<0, 1>>} : faults = b[1] /\ delays = b[2]
    /\ \E m \in Modes, c \in BOOLEAN, g \in {<<>>, <<1>>, <<1, 1>>},
          wg \in {<<>>, <<1>>}, r \in 1..2 :
         argv = [mode |-> m, requests |-> 2, wait |-> 5, requests_grid |-> g,
                 wait_grid |-> wg, reps |-> r, compare |-> c]

\* ------------------------------------------- the pure functions by themselves
MaxRecords == 3    \* longest record list / sample drawn
MaxLat == 2        \* largest latency of a drawn record, in ticks

\* what the server of a drawn record reports: a worker process, or nothing
Workers == {0, 7, 9}
HashOf(pid) == IF pid = 7 THEN "s1" ELSE IF pid = 9 THEN "s2" ELSE ""
HostOf(pid) == IF pid = 0 THEN "" ELSE "hostA"

\* the records a session can return: a success with its latencies (connect
\* only under ws) and the server's echo, or a failure
Shapes ==
    {[ok |-> TRUE, speed |-> s, pid |-> w] : s \in 0..MaxLat, w \in Workers}
        \cup {[ok |-> FALSE, speed |-> 1, pid |-> 0]}

RecordOf(sh, i, mode, w) ==
    LET cl == IF mode = "ws" THEN sh.speed ELSE 0
        rl == sh.speed
        sl == (sh.speed + 1) % (MaxLat + 1)
    IN IF sh.ok
       THEN [SuccessResult(i - 1, mode, w, cl, rl, sl, cl + rl + sl, "full") EXCEPT
               !.pid = sh.pid, !.session_hash = HashOf(sh.pid),
               !.host_url = HostOf(sh.pid)]
       ELSE FailedResult(i - 1, mode, w, sh.speed, "TimeoutError")

\* the list a runner returns for the shapes shs
RecordList(shs, mode, w) ==
    Stamp([i \in 1..Len(shs) |-> RecordOf(shs[i], i, mode, w)], Len(shs), "t4-small")

Samples == UNION {[1..k -> 0..MaxLat] : k \in 0..MaxRecords}
Points == {0, 25, 50, 90, 95, 99, 100}

\* compute_summary called on the records of a batch that took 0 or 3 ticks
InitSummary ==
    /\ websockets = TRUE /\ hardware = "t4-small"
    /\ entry = "summary" /\ pc = "call_summary"
    /\ start = 0 /\ now \in {0, 3}
    /\ \E m \in Modes, k \in 0..MaxRecords : \E shs \in [1..k -> Shapes] :
         /\ results = RecordList(shs, m, 5)
         /\ cell = [mode |-> m, num_requests |-> k, wait_seconds |-> 5,
                     repetition |-> 1]
    /\ cfg = NoCfg /\ sess = <<>> /\ summary = NoSummary /\ raised = None
    /\ faults = 0 /\ delays = 0
    /\ loop = [ni |-> 1, wi |-> 1, rep |-> 1] /\ current = 0
    /\ all_summaries = <<>> /\ compared = <<>>
    /\ data = <<>> /\ percent = 0 /\ value = Zero /\ pool = NoPool
    /\ NoOutput /\ argv = NoArgv

\* percentile called on a sample
InitPercentile ==
    /\ websockets = TRUE /\ hardware = "t4-small"
    /\ entry = "percentile" /\ pc = "call_percentile"
    /\ data \in Samples /\ percent \in Points /\ value = Zero /\ pool = NoPool
    /\ NoOutput /\ argv = NoArgv
    /\ start = 0 /\ now = 0 /\ results = <<>> /\ cell = NoCell
    /\ cfg = NoCfg /\ sess = <<>> /\ summary = NoSummary /\ raised = None
    /\ faults = 0 /\ delays = 0
    /\ loop = [ni |-> 1, wi |-> 1, rep |-> 1] /\ current = 0
    /\ all_summaries = <<>> /\ compared = <<>>

\* lines 376-452: the call returns the summary
summary_call ==
    /\ pc = "call_summary"
    /\ summary' = compute_summary(results, cell.mode, cell.num_requests,
                                  cell.wait_seconds, cell.repetition, now - start,
                                  hardware)
    /\ pc' = "returned"
    /\ UNCHANGED <<args, files, pure, pool, budget, cell, start, sess, results, raised, now, sweep,
                   compared>>

\* lines 156-164: the call returns the percentile
percentile_call ==
    /\ pc = "call_percentile"
    /\ value' = percentile(data, percent)
    /\ pc' = "returned"
    /\ UNCHANGED <<args, files, data, percent, pool, budget, cell, start, sess, results, summary,
                   raised, now, sweep, compared>>

\* ------------------------------------------------- the connection pool
\* The requests of the sessions of one http batch at the pool of the shared
\* client: a session waits for a connection (queued), has its request on a
\* connection (sent), and is done after the response to /step.  Sessions are
\* counted, not told apart.
max_connections == 1000
MaxPoolN == 1001   \* largest batch size drawn for the pool

PoolSizes == {1, 2, MaxPoolN}

\* connections carrying a request
InUse == pool.reset_sent + pool.step_sent

\* run_http_test called with N sessions: each one issues POST /reset
InitPool ==
    /\ websockets = TRUE /\ hardware = "t4-small"
    /\ entry = "pool" /\ pc = "gather"
    /\ \E n \in PoolSizes :
         /\ cell = [mode |-> "http", num_requests |-> n, wait_seconds |-> 5,
                     repetition |-> 1]
         /\ pool = [NoPool EXCEPT !.reset_queued = n, !.client = "open"]
    /\ data = <<>> /\ percent = 0 /\ value = Zero
    /\ NoOutput /\ argv = NoArgv
    /\ start = 0 /\ now = 0 /\ results = <<>>
    /\ cfg = NoCfg /\ sess = <<>> /\ summary = NoSummary /\ raised = None
    /\ faults = 0 /\ delays = 0
    /\ loop = [ni |-> 1, wi |-> 1, rep |-> 1] /\ current = 0
    /\ all_summaries = <<>> /\ compared = <<>>

PoolUnchanged ==
    UNCHANGED <<args, files, pure, budget, cell, start, sess, results, summary, raised, now,
                sweep, compared>>

\* a queued request can take a connection; the pool serves the oldest request
\* first, and every /reset request is older than every /step request
CanAcquire ==
    InUse < max_connections /\ pool.reset_queued + pool.step_queued > 0

\* line 202: the POST /reset of a session gets a connection
pool_acquire_reset ==
    /\ pc = "gather" /\ entry = "pool"
    /\ pool.reset_queued > 0 /\ InUse < max_connections
    /\ pool' = [pool EXCEPT !.reset_queued = @ - 1, !.reset_sent = @ + 1]
    /\ pc' = pc
    /\ PoolUnchanged

\* lines 209-212: the POST /step of a session gets a connection
pool_acquire_step ==
    /\ pc = "gather" /\ entry = "pool"
    /\ pool.reset_queued = 0 /\ pool.step_queued > 0 /\ InUse < max_connections
    /\ pool' = [pool EXCEPT !.step_queued = @ - 1, !.step_sent = @ + 1]
    /\ pc' = pc
    /\ PoolUnchanged

\* lines 202-209: a /reset is answered, its connection goes back to the pool
\* and the session issues its /step.  The event loop polls for responses only
\* when no coroutine can go on.
pool_reset_answered ==
    /\ pc = "gather" /\ entry = "pool"
    /\ ~CanAcquire /\ pool.reset_sent > 0
    /\ pool' = [pool EXCEPT !.reset_sent = @ - 1, !.step_queued = @ + 1]
    /\ pc' = pc
    /\ PoolUnchanged

\* lines 209-234: a /step is answered: the session returns
pool_step_answered ==
    /\ pc = "gather" /\ entry = "pool"
    /\ ~CanAcquire /\ pool.step_sent > 0
    /\ pool' = [pool EXCEPT !.step_sent = @ - 1, !.done = @ + 1]
    /\ pc' = pc
    /\ PoolUnchanged

\* lines 261-266: every session has returned; the `async with` closes the client
pool_gathered ==
    /\ pc = "gather" /\ entry = "pool"
    /\ pool.done = cell.num_requests
    /\ pc' = "returned"
    /\ pool' = [pool EXCEPT !.client = "closed"]
    /\ PoolUnchanged

\* one step of session i; parts are the parts of an await the peer may leave
\* unanswered for ever
SessionStep(i, parts) ==
    \/ \E d \in Durations : ws_connect_ok(i, d)
    \/ \E d \in Durations, msg \in {"ok", "error"} : ws_reset_recv(i, d, msg)
    \/ \E d \in Durations, msg \in {"ok", "error"}, obs \in {"full", "missing", "bad"} :
         ws_step_recv(i, d, msg, obs)
    \/ \E d \in Durations : ws_close_done(i, d)
    \/ \E d \in Durations, status \in {"2xx", "5xx"} : http_reset_done(i, d, status)
    \/ \E d \in Durations, status \in {"2xx", "5xx"}, body \in {"full", "missing", "bad"} :
         http_step_done(i, d, status, body)
    \/ \E d \in Durations, e \in FailuresOf(sess[i].pc) : op_fail(i, d, e)
    \/ \E part \in parts : op_hang(i, part)
    \/ op_timeout(i)

Batch(parts) ==
    \/ \E i \in Ids : SessionStep(i, parts)
    \/ gather_return
    \/ single_call
    \/ single_finish

\* a caller of run_http_test / run_ws_test or of run_single_test
Next == Batch({"send", "recv"}) \/ runner_call \/ gather_raise

\* the same where every await ends or runs into its timeout: the peer leaves
\* no await unanswered that the timeout does not cover
NextLive == Batch({"recv"}) \/ runner_call \/ gather_raise

\* a caller of run_grid_sweep or of run_comparison
NextSweep ==
    \/ Batch({"send", "recv"})
    \/ grid_iterate
    \/ grid_collect
    \/ grid_wake
    \/ compare_call
    \/ compare_collect
    \/ compare_wake

\* main and what it calls
NextMain == main_call \/ NextSweep

\* a caller of compute_summary or of percentile
NextPure == summary_call \/ percentile_call

\* the requests of an http batch at the connection pool
NextPool ==
    \/ pool_acquire_reset
    \/ pool_acquire_step
    \/ pool_reset_answered
    \/ pool_step_answered
    \/ pool_gathered

Spec == Init /\ [][Next]_vars
SpecPool == InitPool /\ [][NextPool]_vars
SpecPure == (InitSummary \/ InitPercentile) /\ [][NextPure]_vars
SpecSession == InitSession /\ [][Next]_vars
SpecSweep == (InitGrid \/ InitCompare) /\ [][NextSweep]_vars
SpecSink == InitSink /\ [][NextSweep]_vars
SpecMain == InitMain /\ [][NextMain]_vars

\* the event loop runs every coroutine that can go on, and the environment ends
\* every await or lets its timeout expire
SpecLive == InitLive /\ [][NextLive]_vars /\ WF_vars(NextLive)

\* ================================================================ claims
\* the runner has returned its list to its caller
RunnerReturned == pc = "runner_ret" \/ (pc = "returned" /\ entry \in {"runner", "single"})

\* run_single_test has returned its RunSummary
SingleReturned == pc = "returned" /\ entry = "single"

\* C1: in the summary of every completed batch successful + failed equals
\* num_requests, which equals the number of records the batch produced.
C1_CountInvariant ==
    SingleReturned =>
        /\ summary.successful + summary.failed = summary.num_requests
        /\ summary.num_requests = cell.num_requests
        /\ summary.num_requests = Len(results)

\* a summarised batch in which one session succeeded and one failed
C1_MixedBatchSummarised ==
    SingleReturned /\ summary.successful = 1 /\ summary.failed = 1

\* C2 as stated: no session driver ever raises.
C2_NeverRaises == \A i \in Ids : sess[i].pc # "raised"

\* C2, amended: a driver raises only ImportError, in ws_session when the
\* websockets module is missing, before any network operation; every session
\* that returns gives a record that is failed exactly when it carries an
\* error_type.
C2_RaisesOnlyWithoutTransport ==
    \A i \in Ids :
        /\ sess[i].pc = "raised" =>
              sess[i].exc = "ImportError" /\ sess[i].result.mode = "ws" /\ ~websockets
        /\ sess[i].pc = "done" =>
              (sess[i].result.success <=> sess[i].result.error_type = None)

\* a session whose network operation failed has returned a failed record
C2_FailureRecorded ==
    \E i \in Ids :
        /\ sess[i].pc = "done"
        /\ ~sess[i].result.success
        /\ sess[i].result.error_type \in
              {"ConnectionRefusedError", "ConnectError", "ConnectionClosedError"}

\* C3: the runner returns exactly N records, the record of request_id i at
\* position i, whatever the order the sessions ended in and whether or not
\* they failed.
C3_LaunchOrder ==
    RunnerReturned =>
        /\ Len(results) = cell.num_requests
        /\ \A k \in 1..Len(results) : results[k].request_id = k - 1

\* the session launched first ended last, and failed; both records are there
C3_LateFailureKept ==
    /\ RunnerReturned /\ Len(results) = 2
    /\ ~results[1].success /\ results[2].success
    /\ results[1].total_latency > results[2].total_latency

GridC == cfg.requests_grid
GridW == cfg.wait_grid
GridR == cfg.repetitions

\* C5: a grid sweep that returns gives Len(C) * Len(W) * R summaries, the
\* one of (C[i], W[j], r) at position (((i-1) * Len(W)) + (j-1)) * R + r
\* (counting i, j, r and positions from 1), duplicates of C or W included.
C5_GridOrder ==
    (entry = "grid" /\ pc = "returned") =>
        /\ Len(all_summaries) = Len(GridC) * Len(GridW) * GridR
        /\ \A i \in 1..Len(GridC), j \in 1..Len(GridW), r \in 1..GridR :
             LET s == all_summaries[(((i - 1) * Len(GridW)) + (j - 1)) * GridR + r] IN
             /\ s.num_requests = GridC[i]
             /\ s.wait_seconds = GridW[j]
             /\ s.repetition = r
             /\ s.mode = cfg.mode

\* a sweep over two batch sizes, two waits and two repetitions has returned
C5_FullGridSwept ==
    /\ entry = "grid" /\ pc = "returned"
    /\ Len(GridC) > 1 /\ GridC[1] # GridC[2] /\ Len(GridW) > 1 /\ GridR > 1
    /\ Len(all_summaries) > 7

\* C6: in a grid sweep and in a comparison no session is in flight unless the
\* coordinator is awaiting the gather of the current cell, and the sessions in
\* flight are those of the current cell: a cell starts only after every
\* session of the cell before it has returned.
C6_OneBatchAtATime ==
    /\ pc # "gather" => \A i \in Ids : sess[i].pc \notin PendingOps
    /\ pc = "gather" =>
          /\ Len(sess) = cell.num_requests
          /\ \A i \in Ids : /\ sess[i].result.mode = cell.mode
                            /\ sess[i].result.wait_requested = cell.wait_seconds

\* the sessions of a later cell, or of the ws run of a comparison, are in
\* flight
C6_LaterCellRunning ==
    /\ pc = "gather"
    /\ \E i \in Ids : sess[i].pc \in PendingOps
    /\ \/ entry = "grid" /\ current > 1
       \/ entry = "compare" /\ cell.mode = "ws"

\* C7 as stated: every await of a session that the peer leaves unanswered is
\* one the timeout covers, connect, send and receive alike, in both transports.
C7_EveryAwaitBounded ==
    \A i \in Ids : sess[i].hung # "" => HasTimeout(sess[i].pc, sess[i].hung)

\* C8 as stated: no record's total_latency exceeds the timeout.
C8_TotalWithinTimeout ==
    \A i \in Ids : sess[i].pc = "done" => sess[i].result.total_latency <= Timeout

\* C8, amended: the timeout bounds the awaits it covers one by one, not the
\* session: the connect of a ws session never takes longer than the timeout,
\* in the running session and in its record.
C8_ConnectWithinTimeout ==
    \A i \in Ids :
        /\ sess[i].connect_latency <= Timeout
        /\ sess[i].result.connect_latency <= Timeout

\* a ws session whose connect took the whole timeout and whose total_latency
\* is longer
C8_TotalExceedsTimeout ==
    \E i \in Ids :
        /\ sess[i].pc = "done" /\ sess[i].result.success
        /\ sess[i].result.connect_latency = Timeout
        /\ sess[i].result.total_latency > Timeout

\* the batch is awaiting its sessions, none of which raised
BatchRunning == pc = "gather" /\ \A i \in Ids : sess[i].pc # "raised"

\* C9: when every await ends or runs into its timeout, a running batch
\* eventually returns, and it has returned only when all N sessions have.
C9_BatchCompletes ==
    /\ BatchRunning ~> RunnerReturned
    /\ [](RunnerReturned =>
            /\ Len(results) = cell.num_requests
            /\ \A i \in Ids : sess[i].pc = "done")

\* a batch has returned in which a session ran into its timeout
C9_ReturnedAfterTimeout ==
    /\ RunnerReturned /\ Len(results) = 2
    /\ \E k \in 1..2 : results[k].error_type \in {"TimeoutError", "ReadTimeout"}

\* C10 as stated: a record is failed exactly when it has an error_type; a
\* failed record has a non-empty error_type and a non-empty error_message and
\* its echo fields are zero or empty; a successful record has neither.
C10_OutcomeFields ==
    \A i \in Ids :
        sess[i].pc = "done" =>
            LET r == sess[i].result IN
            /\ r.success <=> r.error_type = None
            /\ ~r.success =>
                  /\ r.error_type \notin {None, ""}
                  /\ r.error_message \notin {None, ""}
                  /\ r.waited_seconds = 0 /\ r.pid = 0
                  /\ r.session_hash = "" /\ r.host_url = ""
            /\ r.success => r.error_type = None /\ r.error_message = None

\* compute_summary has returned
SummaryComputed == entry = "summary" /\ pc = "returned"

\* the fields of a summary that hold statistics
StatFields ==
    {"connect_p50", "connect_p95", "connect_p99", "reset_p50", "reset_p95",
     "reset_p99", "step_p50", "step_p95", "step_p99", "total_min", "total_max",
     "total_avg", "total_p50", "total_p90", "total_p95", "total_p99",
     "requests_per_second", "effective_concurrency"}

\* C11: compute_summary divides by zero for no input, a wall time of 0
\* included, and for a list without a successful record (the empty list
\* included) it returns successful = 0, failed = len(records) and every
\* percentile, min, max, mean, throughput and distribution field zero.
C11_AllFailedZero ==
    SummaryComputed =>
        /\ \A f \in StatFields \cup {"error_rate"} : summary[f] # ZeroDivisionError
        /\ (\A i \in 1..Len(results) : ~results[i].success) =>
              /\ summary.successful = 0 /\ summary.failed = Len(results)
              /\ \A f \in StatFields : summary[f] = Zero
              /\ summary.unique_pids = 0 /\ summary.unique_sessions = 0
              /\ summary.unique_hosts = 0

\* the summary of three failed records of a batch that took no time
C11_AllFailedSummarised ==
    /\ SummaryComputed /\ Len(results) = 3 /\ summary.failed = 3
    /\ summary.total_wall_time = 0

\* C12: error_rate is failed / (successful + failed), 0.0 for the empty
\* list, and lies in [0.0, 1.0].
C12_ErrorRate ==
    SummaryComputed =>
        LET n == summary.successful + summary.failed
            e == summary.error_rate
        IN /\ e.d > 0
           /\ n > 0 => e.n * n = summary.failed * e.d
           /\ results = <<>> => e = Zero
           /\ Leq(Zero, e) /\ Leq(e, FromInt(1))

\* a summary of one failed and two successful records: error_rate 1/3
C12_OneInThreeFailed ==
    /\ SummaryComputed /\ summary.failed = 1 /\ summary.successful = 2
    /\ summary.error_rate = [n |-> 1, d |-> 3]

\* effective_concurrency of the summary is (num_requests * wait_seconds) /
\* total_wall_time
ByTheFormula ==
    LET e == summary.effective_concurrency IN
    /\ e.d > 0
    /\ e.n * summary.total_wall_time = summary.num_requests * summary.wait_seconds * e.d

\* C13 as stated: with total_wall_time > 0 effective_concurrency follows the
\* formula whatever the number of successful sessions.
C13_FormulaAlways ==
    (SummaryComputed /\ summary.total_wall_time > 0) => ByTheFormula

\* C13, amended: effective_concurrency follows the formula when
\* total_wall_time > 0 and at least one session succeeded, and is 0.0
\* otherwise.
C13_FormulaWhenSucceeded ==
    SummaryComputed =>
        IF summary.total_wall_time > 0 /\ summary.successful > 0
        THEN ByTheFormula
        ELSE summary.effective_concurrency = Zero

\* a timed batch of two sessions, one failed: 2 * 5 / 3
C13_PartlyFailedTimed ==
    /\ SummaryComputed /\ summary.total_wall_time = 3
    /\ summary.successful = 1 /\ summary.failed = 1
    /\ summary.effective_concurrency = [n |-> 10, d |-> 3]

\* the latencies of one phase over the successful records where it is > 0
PhaseSample(phase) ==
    LET kept == SelectSeq(results, LAMBDA r : r.success /\ r[phase] > 0)
    IN [i \in 1..Len(kept) |-> kept[i][phase]]

\* C14: the p50/p95/p99 of connect, reset and step are the percentiles of
\* the successful records' positive latencies of that phase, 0.0 when there
\* are none; every summary of an http batch has connect_p50 = connect_p95 =
\* connect_p99 = 0.0.
C14_PhaseExclusion ==
    SummaryComputed =>
        /\ \A ph \in {"connect", "reset", "step"} :
             LET sample == PhaseSample(ph \o "_latency") IN
             /\ summary[ph \o "_p50"] = percentile(sample, 50)
             /\ summary[ph \o "_p95"] = percentile(sample, 95)
             /\ summary[ph \o "_p99"] = percentile(sample, 99)
             /\ sample = <<>> => summary[ph \o "_p50"] = Zero
        /\ summary.mode = "http" =>
             /\ summary.connect_p50 = Zero /\ summary.connect_p95 = Zero
             /\ summary.connect_p99 = Zero

\* an http batch with a failed record, a successful record whose reset took
\* no time and one whose reset took time
C14_MixedPhaseSample ==
    /\ SummaryComputed /\ summary.mode = "http"
    /\ \E i, j, k \in 1..Len(results) :
         /\ ~results[i].success
         /\ results[j].success /\ results[j].reset_latency = 0
         /\ results[k].success /\ results[k].reset_latency > 0
    /\ summary.reset_p50 # Zero

\* percentile has returned
PercentileReturned == entry = "percentile" /\ pc = "returned"

\* the element of rank j (from 0) of xs in ascending order
OrderStat(xs, j) ==
    CHOOSE v \in {xs[i] : i \in 1..Len(xs)} :
        /\ Cardinality({i \in 1..Len(xs) : xs[i] < v}) <= j
        /\ j < Cardinality({i \in 1..Len(xs) : xs[i] <= v})

\* C15: percentile(data, p) is sorted[f] + (k - f) * (sorted[c] - sorted[f])
\* with k = (n - 1) * p / 100, f = floor(k), c = min(f + 1, n - 1), whatever
\* the order of data; it is min(data) for p = 0, max(data) for p = 100 and
\* 0.0 for the empty sample.
C15_Interpolated ==
    PercentileReturned =>
        IF data = <<>> THEN value = Zero
        ELSE LET n == Len(data)
                 k100 == (n - 1) * percent
                 f == k100 \div 100
                 c == IF f + 1 < n - 1 THEN f + 1 ELSE n - 1
                 lo == OrderStat(data, f)
                 hi == OrderStat(data, c)
             IN /\ value.d > 0
                /\ value.n * 100 = (100 * lo + (k100 - 100 * f) * (hi - lo)) * value.d
                /\ percent = 0 => value = FromInt(OrderStat(data, 0))
                /\ percent = 100 => value = FromInt(OrderStat(data, n - 1))

\* the 95th percentile of a sample given in descending order lies between
\* two of its elements
C15_UnsortedInterpolated ==
    /\ PercentileReturned /\ Len(data) = 3 /\ percent = 95
    /\ data[1] > data[2] /\ data[2] > data[3]
    /\ value.d # 1

\* C16: in every summary p50 <= p95 <= p99 for connect, reset, step and
\* total, and p50 <= p90 <= p95 for total; percentile(data, p) does not
\* decrease when p grows.
C16_Monotone ==
    /\ SummaryComputed =>
          /\ \A ph \in {"connect", "reset", "step", "total"} :
               /\ Leq(summary[ph \o "_p50"], summary[ph \o "_p95"])
               /\ Leq(summary[ph \o "_p95"], summary[ph \o "_p99"])
          /\ Leq(summary.total_p50, summary.total_p90)
          /\ Leq(summary.total_p90, summary.total_p95)
    /\ PercentileReturned =>
          \A q \in Points : q <= percent => Leq(percentile(data, q), value)

\* a summary whose total percentiles strictly grow
C16_StrictlyGrowing ==
    /\ SummaryComputed
    /\ ~Leq(summary.total_p90, summary.total_p50)
    /\ ~Leq(summary.total_p95, summary.total_p90)
    /\ ~Leq(summary.total_p99, summary.total_p95)

\* the values of a field among the successful records
ValuesAmongSuccessful(field) ==
    {results[i][field] : i \in {j \in 1..Len(results) : results[j].success}}

\* C17 as stated: unique_pids, unique_sessions and unique_hosts are the
\* numbers of distinct pid, session_hash and host_url values among the
\* successful records.
C17_DistinctValues ==
    SummaryComputed =>
        /\ summary.unique_pids = Cardinality(ValuesAmongSuccessful("pid"))
        /\ summary.unique_sessions = Cardinality(ValuesAmongSuccessful("session_hash"))
        /\ summary.unique_hosts = Cardinality(ValuesAmongSuccessful("host_url"))

\* C17, amended: they are the numbers of distinct values other than 0 and
\* the empty string (what a record holds when the server reported nothing)
\* among the successful records; failed records never contribute.
C17_DistinctReported ==
    SummaryComputed =>
        /\ summary.unique_pids = Cardinality(ValuesAmongSuccessful("pid") \ {0})
        /\ summary.unique_sessions =
              Cardinality(ValuesAmongSuccessful("session_hash") \ {""})
        /\ summary.unique_hosts = Cardinality(ValuesAmongSuccessful("host_url") \ {""})

\* successful pids 7, 7, 9 give unique_pids = 2
C17_TwoWorkersOfThree ==
    /\ SummaryComputed /\ summary.successful = 3
    /\ results[1].pid = 7 /\ results[2].pid = 7 /\ results[3].pid = 9
    /\ summary.unique_pids = 2 /\ summary.unique_hosts = 1

\* C18 as stated: a grid sweep called with an empty requests grid, an empty
\* wait grid or fewer than one repetition is rejected: it never returns a
\* list of summaries.
C18_InvalidGridRejected ==
    (entry = "grid" /\ (Len(GridC) = 0 \/ Len(GridW) = 0 \/ GridR < 1))
        => pc # "returned"

\* the entry function needs the websockets module
NeedsWebSockets ==
    \/ entry = "grid" /\ cfg.mode = "ws"
    \/ entry = "compare"

\* C19: without the websockets module a ws grid sweep, the ws run of
\* run_single_test it makes for its first cell, and a comparison launch no
\* session of either transport and produce no summary: run_single_test raises
\* ImportError, and with it the sweep that has a cell; the comparison exits.
C19_CapabilityFatal ==
    (~websockets /\ NeedsWebSockets) =>
        /\ sess = <<>> /\ results = <<>>
        /\ summary = NoSummary /\ all_summaries = <<>> /\ compared = <<>>
        /\ pc \notin {"gather", "runner_ret", "single_ret", "cmp_sleep", "grid_sleep"}
        /\ pc = "returned" => entry = "grid" /\ total_configs = 0

\* a comparison has exited before its http run
C19_ComparisonExited ==
    /\ ~websockets /\ entry = "compare" /\ pc = "exited"
    /\ cfg.num_requests > 0 /\ sess = <<>>

\* C20 as stated: no session of an http batch waits for a connection while
\* every connection of the pool carries the request of a sibling.
C20_NoneWaitsOnPool ==
    entry = "pool" =>
        ~(InUse = max_connections /\ pool.reset_queued + pool.step_queued > 0)

\* ------------------------------------------------ the protocol of a session
IsPrefix(a, b) == Len(a) <= Len(b) /\ \A k \in 1..Len(a) : a[k] = b[k]
Has(w, m) == \E k \in 1..Len(w) : w[k] = m

\* what a ws session may have sent and read: the whole exchange, or an exchange
\* that ended with an error-typed response
WsExchange == <<">reset", "<ok", ">step", "<ok", ">close">>
WsExchanges ==
    {WsExchange, <<">reset", "<error">>, <<">reset", "<ok", ">step", "<error">>}

\* C23: a ws session sends reset only on a connection it has opened, step only
\* after a reset response that is no error, close only after a step response
\* that is no error; after an error-typed response it sends nothing more, and
\* it ends as a failed record.
C23_WsProtocolOrder ==
    \A i \in Ids :
        sess[i].result.mode = "ws" =>
            /\ \E x \in WsExchanges : IsPrefix(sess[i].wire, x)
            /\ sess[i].wire # <<>> => sess[i].conn # "none"
            /\ Has(sess[i].wire, "<error") =>
                  \/ sess[i].pc = "closing" /\ sess[i].exc = "RuntimeError"
                  \/ sess[i].pc = "done" /\ ~sess[i].result.success
                        /\ sess[i].result.error_type = "RuntimeError"

\* a ws session whose step was answered with an error has returned
C23_StepErrorEnded ==
    \E i \in Ids :
        /\ sess[i].pc = "done"
        /\ sess[i].wire = <<">reset", "<ok", ">step", "<error">>

\* C24 as stated: a ws session that read a step response without error and
\* went on to close returns a successful record with the latencies it
\* measured, whatever happens to the close message.
C24_CloseBestEffort ==
    \A i \in Ids :
        (/\ sess[i].pc = "done" /\ sess[i].wire = WsExchange
         /\ sess[i].result.error_type # "AttributeError")
        => sess[i].result.success

\* what an http session may have sent and read
HttpExchange == <<">reset", "<2xx", ">step", "<2xx">>
HttpExchanges ==
    {HttpExchange, <<">reset", "<5xx">>, <<">reset", "<2xx", ">step", "<5xx">>}

\* C25: an http session issues POST /step only after a 2xx answer to
\* POST /reset and nothing after an answer that is not 2xx; a session whose
\* exchange did not end with two 2xx answers returns a failed record; every
\* http record has connect_latency 0.
C25_HttpProtocolOrder ==
    \A i \in Ids :
        sess[i].result.mode = "http" =>
            /\ \E x \in HttpExchanges : IsPrefix(sess[i].wire, x)
            /\ sess[i].pc = "done" =>
                  /\ sess[i].result.connect_latency = 0
                  /\ sess[i].result.success => sess[i].wire = HttpExchange
                  /\ Has(sess[i].wire, "<5xx") =>
                        sess[i].result.error_type = "HTTPStatusError"

\* an http session whose reset was refused by the server has returned
C25_ResetRefused ==
    \E i \in Ids :
        /\ sess[i].pc = "done" /\ ~sess[i].result.success
        /\ sess[i].wire = <<">reset", "<5xx">>

\* C28: a failed record has connect_latency, reset_latency and step_latency
\* 0, also when the phases before the failure had been timed.
C28_FailedPhasesZero ==
    \A i \in Ids :
        (sess[i].pc = "done" /\ ~sess[i].result.success) =>
            /\ sess[i].result.connect_latency = 0
            /\ sess[i].result.reset_latency = 0
            /\ sess[i].result.step_latency = 0

\* a ws session failed at its step after a connect or reset that took time
C28_FailedAfterTimedPhase ==
    \E i \in Ids :
        /\ sess[i].pc = "done" /\ ~sess[i].result.success
        /\ sess[i].wire = <<">reset", "<ok", ">step", "<error">>
        /\ sess[i].result.total_latency > 0

\* C29: a session that has returned or raised leaves no WebSocket connection
\* open, and the client of an http batch is closed once the runner has
\* returned.
C29_NothingLeftOpen ==
    /\ \A i \in Ids : sess[i].pc \in {"done", "raised"} => sess[i].conn # "open"
    /\ pc # "gather" => pool.client # "open"
    /\ (pc = "gather" /\ cell.mode = "http") => pool.client = "open"

\* a ws session that failed inside the connection has returned, its
\* connection closed
C29_ClosedAfterFailure ==
    \E i \in Ids :
        /\ sess[i].pc = "done" /\ ~sess[i].result.success
        /\ sess[i].conn = "closed"
        /\ sess[i].result.error_type \in {"TimeoutError", "ConnectionClosedError"}

\* C26: every record the runner has returned, failed or not, has batch_size
\* N and the hardware passed to the runner; the runner returns N records and
\* only once every session has returned, and the summary is computed from
\* the stamped records.
C26_Stamped ==
    /\ \A k \in 1..Len(results) :
          results[k].batch_size = cell.num_requests /\ results[k].hardware = hardware
    /\ RunnerReturned => Len(results) = cell.num_requests /\ AllDone
    /\ pc \in {"call_runner", "call_single", "gather"} => results = <<>>
    /\ SingleReturned => summary.hardware = hardware /\ Len(results) = summary.num_requests

\* a batch of two has returned, its second record failed, both stamped
C26_FailedRecordStamped ==
    /\ RunnerReturned /\ Len(results) = 2
    /\ results[1].success /\ ~results[2].success
    /\ results[2].batch_size = 2 /\ results[2].hardware = "t4-small"

\* the summary is the one of a run of the comparison in the given mode
ComparedRun(s, mode) ==
    /\ s.mode = mode /\ s.repetition = 1
    /\ s.num_requests = cfg.num_requests /\ s.wait_seconds = cfg.wait_seconds

\* C21: a comparison runs the http batch, then pauses, then runs the ws batch,
\* both with the N and the wait it was called with: the first summary it keeps
\* is the http one, the second the ws one; the pause begins when every http
\* session has returned and the ws batch starts a whole pause after the end
\* of the http batch; it returns when it has exactly the two summaries.
C21_ComparisonOrder ==
    entry = "compare" =>
        /\ Len(compared) <= 2
        /\ Len(compared) >= 1 => ComparedRun(compared[1], "http")
        /\ Len(compared) = 2 => ComparedRun(compared[2], "ws")
        /\ pc = "returned" <=> Len(compared) = 2
        /\ cell # NoCell =>
              /\ cell.num_requests = cfg.num_requests
              /\ cell.wait_seconds = cfg.wait_seconds
              /\ cell.mode = (IF Len(compared) = 0 THEN "http" ELSE "ws")
                    \/ pc \in {"cmp_sleep", "returned"}
        /\ pc = "cmp_sleep" =>
              /\ Len(compared) = 1 /\ AllDone
              /\ \A i \in Ids : sess[i].result.mode = "http"
        /\ (cell.mode = "ws" /\ pc # "call_single") =>
              start >= compared[1].total_wall_time + ComparePause

\* a comparison of two sessions each has returned its two summaries, the
\* http batch having taken time
C21_BothCompared ==
    /\ entry = "compare" /\ pc = "returned" /\ cfg.num_requests = 2
    /\ Len(compared) = 2 /\ compared[1].total_wall_time > 0
    /\ compared[1].mode = "http" /\ compared[2].mode = "ws"

\* the wall times of the cells summarised so far, added up
WallSum == Sum([k \in 1..Len(all_summaries) |-> all_summaries[k].total_wall_time])

\* C27: a sweep pauses after a cell only when another cell follows, and the
\* clock of a cell starts after the pause before it and stops before the
\* pause after it: cell k starts when the k - 1 cells and the k - 1 pauses
\* before it have passed, and a sweep that has returned took the wall times
\* of its cells plus one pause between every two of them.
C27_PausesBetweenCells ==
    entry = "grid" =>
        /\ pc = "grid_sleep" =>
              /\ current < total_configs /\ Len(all_summaries) = current
              /\ now = WallSum + GridPause * (current - 1)
        /\ pc \in {"gather", "runner_ret"} =>
              start = WallSum + GridPause * (current - 1)
        /\ pc = "single_ret" =>
              /\ summary.total_wall_time = now - start
              /\ start = WallSum + GridPause * (current - 1)
        /\ (pc = "returned" /\ total_configs > 0) =>
              now = WallSum + GridPause * (total_configs - 1)

\* a sweep of several cells has returned, one of its cells having taken time
C27_SweepPaused ==
    /\ entry = "grid" /\ pc = "returned" /\ total_configs > 2
    /\ now > GridPause * (total_configs - 1)

\* the summaries run_single_test has written in this call of the sweep or of
\* the comparison, in the order it wrote them
Emitted ==
    (IF entry = "grid" THEN all_summaries ELSE compared)
        \o (IF pc = "single_ret" THEN <<summary>> ELSE <<>>)

\* summary.csv is a header line followed by rows only, the last of them the
\* rows of the summaries written in this call, in that order
HeaderOnce ==
    LET L == summary_csv.lines IN
    IF ~summary_csv.exists THEN L = <<>> /\ Emitted = <<>>
    ELSE /\ Len(L) >= 1 + Len(Emitted)
         /\ L[1].kind = "header" /\ L[1].cells = fieldnames
         /\ \A k \in 2..Len(L) : L[k].kind = "row"
         /\ \A k \in 1..Len(Emitted) :
               L[Len(L) - Len(Emitted) + k] = RowLine(Emitted[k])

\* a step leaves the lines of both files in place; the step that writes adds
\* one line per record of the batch, in the order of the records, to
\* raw.jsonl and the row of the new summary to summary.csv
AppendOnly ==
    /\ IsPrefix(raw_jsonl.lines, raw_jsonl'.lines)
    /\ IsPrefix(summary_csv.lines, summary_csv'.lines)
    /\ files' # files =>
          /\ pc = "runner_ret"
          /\ raw_jsonl'.lines =
                raw_jsonl.lines \o [k \in 1..Len(results) |-> JsonLine(results[k])]
          /\ summary_csv'.lines[Len(summary_csv'.lines)] = RowLine(summary')

\* C22: whatever cells have been written into the output directory,
\* summary.csv has one header line, its first, and then one row per summary
\* in the order written, raw.jsonl gets one line per record in the order of
\* the records, and no line of either file is ever changed or removed.
C22_AppendOnlyHeaderOnce == [](HeaderOnce) /\ [][AppendOnly]_vars

\* a sweep has written three cells into a directory used before, one of
\* them with a failed record
C22_ThreeCellsWritten ==
    /\ entry = "grid" /\ pc = "returned" /\ Len(all_summaries) >= 3
    /\ Len(summary_csv.lines) = Len(all_summaries) + 2
    /\ \E k \in 1..Len(raw_jsonl.lines) : ~raw_jsonl.lines[k].object.success

====
